---------------------------- MODULE Spec2Model ----------------------------
(***************************************************************************)
(* DocumentLedger (worldbuild/domain/ledger.py): the per-ingestion table   *)
(* that deduplicates extracted entities by normalized name and back-fills  *)
(* relation endpoints with stored identifiers;                             *)
(* SQLAlchemyDocumentRepository (infrastructure/database): the store;      *)
(* IngestDocumentUseCase.execute (application/use_cases): the ingestion;   *)
(* ChatUseCase.answer (resonance/application/use_cases): the retrieval;    *)
(* SimpleParagraphChunker.chunk and OpenRouterExtractionService._to_result *)
(* (resonance/infrastructure/services): two of its collaborators.          *)
(*                                                                         *)
(* Encoding of Python values:                                              *)
(*   str            a sequence of one-character strings, "" is << >>       *)
(*   Optional[T]    None is << >>, a present value v is << v >>            *)
(*   OrderedDict    a sequence of [key, value] records in insertion order  *)
(***************************************************************************)
EXTENDS Integers, Sequences, FiniteSets, TLC

VARIABLES
    entities,     \* DocumentLedger._entities
    pre,          \* history: _entities as it was when the last call began
    op,           \* history: the last ledger method called
    args,         \* history: the argument of the last call, as passed
    argsAfter,    \* the caller's argument objects as they are after the call
    result,       \* the value the last call returned
    raised,       \* TRUE once a ledger method has raised
    db,           \* the SQLite store: the rows of each table, in insertion order
    dbPre,        \* history: db as it was when the last repository call or
                  \* the current execute began
    call,         \* history: the last repository call and its outcome
    calls,        \* number of repository calls made from outside execute
    pc,           \* execute: the statement it is about to run
    locals,       \* execute: its local variables
    steps,        \* history: the collaborator calls of the current execute
    runs          \* number of execute calls begun

vars == <<entities, pre, op, args, argsAfter, result, raised>>

\* the ledger's history variables
ledgerHistory == <<pre, op, args, argsAfter, result, raised>>

\* the variables of the repository and of the use case
storeVars == <<db, dbPre, call, calls>>
executeVars == <<pc, locals, steps, runs>>

allVars == <<vars, storeVars, executeVars>>

-----------------------------------------------------------------------------
(* Bounds of the model *)

MaxBatch == 3      \* longest entity sequence passed to register_entities
MaxStored == 2     \* longest entity sequence passed to update_with_stored
MaxRels == 2       \* longest relation sequence passed to resolve_relations

-----------------------------------------------------------------------------
(* Python values *)

None == << >>
Some(v) == << v >>

IsSpace(c) == c \in {" ", "\n"}

LowerChar(c) ==
    CASE c = "A" -> "a"
      [] c = "B" -> "b"
      [] c = "C" -> "c"
      [] c = "N" -> "n"
      [] c = "P" -> "p"
      [] OTHER -> c

RECURSIVE LStrip(_)
LStrip(s) == IF s # << >> /\ IsSpace(Head(s)) THEN LStrip(Tail(s)) ELSE s

RECURSIVE RStrip(_)
RStrip(s) ==
    IF s # << >> /\ IsSpace(s[Len(s)])
    THEN RStrip(SubSeq(s, 1, Len(s) - 1))
    ELSE s

\* str.strip()
Strip(s) == RStrip(LStrip(s))

\* str.lower()
Lower(s) == [i \in 1..Len(s) |-> LowerChar(s[i])]

\* the guard written as `if name != ""`: None passes it
TruthyNotEmpty(name) == name = None \/ name[1] # << >>

\* bool(name) for an Optional[str]: None and "" are falsy
Truthy(name) == name # None /\ name[1] # << >>

-----------------------------------------------------------------------------
(* Domain values *)

WorldEntity(id, chunk_id, entity_type, name, description, metadata) ==
    [id |-> id, chunk_id |-> chunk_id, entity_type |-> entity_type,
     name |-> name, description |-> description, metadata |-> metadata]

Relation(id, predicate, sid, sname, oid, oname, description, metadata) ==
    [id |-> id, predicate |-> predicate,
     subject_entity_id |-> sid, subject_name |-> sname,
     object_entity_id |-> oid, object_name |-> oname,
     description |-> description, metadata |-> metadata]


-----------------------------------------------------------------------------
(* OrderedDict[str, WorldEntity] *)

\* key in d
Has(d, key) == \E i \in 1..Len(d) : d[i].key = key

\* d.get(key): the value as an Optional
DictGet(d, key) ==
    IF Has(d, key)
    THEN Some(d[CHOOSE i \in 1..Len(d) : d[i].key = key].value)
    ELSE None

\* d[key] = value: a present key keeps its position, a new key goes last
DictSet(d, key, value) ==
    IF Has(d, key)
    THEN [i \in 1..Len(d) |->
            IF d[i].key = key THEN [key |-> key, value |-> value] ELSE d[i]]
    ELSE Append(d, [key |-> key, value |-> value])

\* list(d.values())
DictValues(d) == [i \in 1..Len(d) |-> d[i].value]

-----------------------------------------------------------------------------
(* DocumentLedger *)

\* _key without the strip(): name.lower() alone
KeyNoStrip(name) == Lower(name)

\* DocumentLedger._key
Key(name) == Lower(Strip(name))

\* register_entities without line 27: a novel entity is returned but never
\* entered in _entities
RECURSIVE RegisterLoopNoInsert(_, _, _)
RegisterLoopNoInsert(d, ents, unique) ==
    IF ents = << >>
    THEN [entities |-> d, unique |-> unique]
    ELSE IF Has(d, Key(Head(ents).name))
         THEN RegisterLoopNoInsert(d, Tail(ents), unique)
         ELSE RegisterLoopNoInsert(d, Tail(ents), Append(unique, Head(ents)))

\* register_entities with lines 25-27 in the order 27, 25, 26: a later mention
\* replaces the record before the membership test skips it
RECURSIVE RegisterLoopOverwrite(_, _, _)
RegisterLoopOverwrite(d, ents, unique) ==
    IF ents = << >>
    THEN [entities |-> d, unique |-> unique]
    ELSE LET entity == Head(ents)
             key == Key(entity.name)
         IN  IF Has(d, key)
             THEN RegisterLoopOverwrite(DictSet(d, key, entity), Tail(ents), unique)
             ELSE RegisterLoopOverwrite(DictSet(d, key, entity), Tail(ents),
                                        Append(unique, entity))

\* the loop of register_entities: d is _entities, unique the list built so far
RECURSIVE RegisterLoop(_, _, _)
RegisterLoop(d, ents, unique) ==
    IF ents = << >>
    THEN [entities |-> d, unique |-> unique]
    ELSE LET entity == Head(ents)
             key == Key(entity.name)
         IN  IF Has(d, key)
             THEN RegisterLoop(d, Tail(ents), unique)
             ELSE RegisterLoop(DictSet(d, key, entity), Tail(ents),
                               Append(unique, entity))

\* update_with_stored with line 34 keyed by the raw name: _entities[entity.name]
RECURSIVE UpdateLoopRawKey(_, _)
UpdateLoopRawKey(d, ents) ==
    IF ents = << >>
    THEN d
    ELSE UpdateLoopRawKey(DictSet(d, Head(ents).name, Head(ents)), Tail(ents))

\* update_with_stored with _entities.setdefault(key, entity): a record
\* already held is kept
RECURSIVE UpdateLoopSetDefault(_, _)
UpdateLoopSetDefault(d, ents) ==
    IF ents = << >>
    THEN d
    ELSE LET key == Key(Head(ents).name)
         IN  UpdateLoopSetDefault(
                 IF Has(d, key) THEN d ELSE DictSet(d, key, Head(ents)),
                 Tail(ents))

\* update_with_stored iterating reversed(entities): of two inputs of one
\* name the first is written last
RECURSIVE UpdateLoopReversed(_, _)
UpdateLoopReversed(d, ents) ==
    IF ents = << >>
    THEN d
    ELSE UpdateLoopReversed(
             DictSet(d, Key(ents[Len(ents)].name), ents[Len(ents)]),
             SubSeq(ents, 1, Len(ents) - 1))

\* the loop of update_with_stored
RECURSIVE UpdateLoop(_, _)
UpdateLoop(d, ents) ==
    IF ents = << >>
    THEN d
    ELSE UpdateLoop(DictSet(d, Key(Head(ents).name), Head(ents)), Tail(ents))

\* _lookup, the scan by identifier: the first value with that id
LookupById(d, entity_id) ==
    LET values == DictValues(d)
        hits == {i \in 1..Len(values) : values[i].id = entity_id}
    IN  IF hits = {}
        THEN None
        ELSE Some(values[CHOOSE i \in hits : \A j \in hits : i <= j])

\* _lookup raises when _key is applied to None (None has no strip())
LookupRaises(entity_id, name) ==
    entity_id = None /\ Truthy(name) /\ name = None

\* _lookup with the two tests in the other order: a name wins over an id
LookupNameFirst(d, entity_id, name) ==
    IF Truthy(name)
    THEN DictGet(d, Key(name[1]))
    ELSE IF entity_id # None THEN LookupById(d, entity_id) ELSE None

\* _lookup: Optional[WorldEntity]
Lookup(d, entity_id, name) ==
    IF entity_id # None
    THEN LookupById(d, entity_id)
    ELSE IF Truthy(name) /\ ~LookupRaises(entity_id, name)
         THEN DictGet(d, Key(name[1]))
         ELSE None

\* a match without identifier answered with a placeholder identifier
ResolvedIdPlaceholder(found, entity_id) ==
    IF found # None
    THEN (IF found[1].id = None THEN Some(0) ELSE found[1].id)
    ELSE entity_id

\* the model_copy(update=...) of resolve_relations for one endpoint
ResolvedId(found, entity_id) == IF found # None THEN found[1].id ELSE entity_id

\* the loop body with the two update entries crossed: each identifier is
\* taken from the other endpoint's lookup
ResolveOneSwapped(d, relation) ==
    LET subject == Lookup(d, relation.subject_entity_id, relation.subject_name)
        obj == Lookup(d, relation.object_entity_id, relation.object_name)
    IN  [relation EXCEPT
            !.subject_entity_id = ResolvedId(obj, relation.subject_entity_id),
            !.object_entity_id = ResolvedId(subject, relation.object_entity_id)]

\* the loop body with line 41 looking the subject up a second time
ResolveOneObjectFromSubject(d, relation) ==
    LET subject == Lookup(d, relation.subject_entity_id, relation.subject_name)
        obj == Lookup(d, relation.subject_entity_id, relation.subject_name)
    IN  [relation EXCEPT
            !.subject_entity_id = ResolvedId(subject, relation.subject_entity_id),
            !.object_entity_id = ResolvedId(obj, relation.object_entity_id)]

\* the body of the loop of resolve_relations
ResolveOne(d, relation) ==
    LET subject == Lookup(d, relation.subject_entity_id, relation.subject_name)
        obj == Lookup(d, relation.object_entity_id, relation.object_name)
    IN  [relation EXCEPT
            !.subject_entity_id = ResolvedId(subject, relation.subject_entity_id),
            !.object_entity_id = ResolvedId(obj, relation.object_entity_id)]

\* resolve_relations with resolved.insert(0, ...) for resolved.append(...)
ResolveRelationsReversed(d, relations) ==
    [i \in 1..Len(relations) |->
        ResolveOne(d, relations[Len(relations) + 1 - i])]

\* resolve_relations
ResolveRelations(d, relations) ==
    [i \in 1..Len(relations) |-> ResolveOne(d, relations[i])]

ResolveRaises(relations) ==
    \E i \in 1..Len(relations) :
        \/ LookupRaises(relations[i].subject_entity_id, relations[i].subject_name)
        \/ LookupRaises(relations[i].object_entity_id, relations[i].object_name)

\* model_copy builds a new Relation: the caller's objects stay as passed
InputAfterResolve(d, relations) == relations

-----------------------------------------------------------------------------
(* SQLAlchemyDocumentRepository *)

Document(id, path, title, content, metadata) ==
    [id |-> id, path |-> path, title |-> title, content |-> content,
     metadata |-> metadata]

\* metadata takes its default, an empty dict
DocumentChunk(id, document_id, chunk_index, text) ==
    [id |-> id, document_id |-> document_id, chunk_index |-> chunk_index,
     text |-> text, metadata |-> {}]

DocumentWithChunks(document, chunks) ==
    [document |-> document, chunks |-> chunks]

\* json.dumps: the text of a value, told apart from the value itself
JsonDumps(value) == <<"json", value>>

\* metadata_obj.create_all on a new file: every table exists and is empty
EmptyStore ==
    [documents |-> << >>, chunks |-> << >>, entities |-> << >>,
     relations |-> << >>, chunk_embeddings |-> << >>,
     entity_embeddings |-> << >>]

\* the primary keys of a table's rows
Ids(rows) == {rows[i].id : i \in 1..Len(rows)}

\* the key SQLite gives an inserted row of an INTEGER PRIMARY KEY table: one
\* more than the largest key the table holds
InsertedPrimaryKey(rows) ==
    IF rows = << >>
    THEN 1
    ELSE 1 + (CHOOSE n \in Ids(rows) : \A m \in Ids(rows) : m <= n)

\* uq_chunks_document_index
UqChunksDocumentIndex(rows) ==
    \A i, j \in 1..Len(rows) :
        (/\ rows[i].document_id = rows[j].document_id
         /\ rows[i].chunk_index = rows[j].chunk_index) => i = j

\* a nullable foreign key column holds NULL or the key of a row of the table
References(column, rows) == column = None \/ column[1] \in Ids(rows)

\* `with self._engine.begin() as conn`: the block's statements are committed
\* together, or none of them is when one raises
Transaction(d, after, ok, returned) ==
    IF ok
    THEN [db |-> after, result |-> returned, failed |-> FALSE]
    ELSE [db |-> d, result |-> None, failed |-> TRUE]

\* the chunk rows numbered from one
ChunkRowsOneBased(document_id, first, chunk_texts) ==
    [i \in 1..Len(chunk_texts) |->
        [id |-> first + i - 1, document_id |-> document_id,
         chunk_index |-> i, text |-> chunk_texts[i],
         metadata |-> JsonDumps({})]]

\* the rows inserted by the loop over enumerate(chunk_texts)
ChunkRows(document_id, first, chunk_texts) ==
    [i \in 1..Len(chunk_texts) |->
        [id |-> first + i - 1, document_id |-> document_id,
         chunk_index |-> i - 1, text |-> chunk_texts[i],
         metadata |-> JsonDumps({})]]

\* save_document_with_chunks
SaveDocumentWithChunks(d, document, chunk_texts) ==
    LET document_id == InsertedPrimaryKey(d.documents)
        stored_doc == [document EXCEPT !.id = Some(document_id)]
        rows == ChunkRows(document_id, InsertedPrimaryKey(d.chunks),
                          chunk_texts)
        stored_chunks ==
            [i \in 1..Len(rows) |->
                DocumentChunk(Some(rows[i].id), Some(rows[i].document_id),
                              rows[i].chunk_index, rows[i].text)]
        after ==
            [d EXCEPT
                !.documents =
                    Append(@, [document EXCEPT
                                  !.id = document_id,
                                  !.metadata = JsonDumps(document.metadata)]),
                !.chunks = @ \o rows]
    IN  Transaction(d, after, UqChunksDocumentIndex(after.chunks),
                    DocumentWithChunks(stored_doc, stored_chunks))

\* the rows of save_entities and save_relations keyed by their place in the
\* batch alone
RowsKeyedFromOne(rows, items) ==
    [i \in 1..Len(items) |->
        [items[i] EXCEPT !.id = i, !.metadata = JsonDumps(items[i].metadata)]]

\* the rows inserted by the loop of save_entities and of save_relations: every
\* column but id comes from the item, id is the inserted primary key
InsertedRows(rows, items) ==
    [i \in 1..Len(items) |->
        [items[i] EXCEPT !.id = InsertedPrimaryKey(rows) + i - 1,
                         !.metadata = JsonDumps(items[i].metadata)]]

\* item.model_copy(update={"id": inserted_primary_key}) for each item
StoredCopies(items, inserted) ==
    [i \in 1..Len(items) |-> [items[i] EXCEPT !.id = Some(inserted[i].id)]]

\* save_entities; fk tells whether the connection enforces foreign keys
SaveEntities(d, ents, fk) ==
    IF ents = << >>
    THEN [db |-> d, result |-> << >>, failed |-> FALSE]
    ELSE LET inserted == InsertedRows(d.entities, ents)
         IN  Transaction(
                 d, [d EXCEPT !.entities = @ \o inserted],
                 fk => \A i \in 1..Len(ents) :
                           References(ents[i].chunk_id, d.chunks),
                 StoredCopies(ents, inserted))

\* save_relations
SaveRelations(d, relations, fk) ==
    IF relations = << >>
    THEN [db |-> d, result |-> << >>, failed |-> FALSE]
    ELSE LET inserted == InsertedRows(d.relations, relations)
         IN  Transaction(
                 d, [d EXCEPT !.relations = @ \o inserted],
                 fk => \A i \in 1..Len(relations) :
                           /\ References(relations[i].subject_entity_id,
                                         d.entities)
                           /\ References(relations[i].object_entity_id,
                                         d.entities),
                 StoredCopies(relations, inserted))

\* insert(...).values(...).on_conflict_do_update(index_elements=[key],
\* set_={"vector": ...}): id stands for the table's key column
Upsert(rows, id, vector) ==
    IF id \in Ids(rows)
    THEN [i \in 1..Len(rows) |->
            IF rows[i].id = id
            THEN [rows[i] EXCEPT !.vector = JsonDumps(vector)]
            ELSE rows[i]]
    ELSE Append(rows, [id |-> id, vector |-> JsonDumps(vector)])

\* the loop over vectors of the two embedding saves
RECURSIVE UpsertLoop(_, _)
UpsertLoop(rows, vectors) ==
    IF vectors = << >>
    THEN rows
    ELSE UpsertLoop(Upsert(rows, Head(vectors)[1], Head(vectors)[2]),
                    Tail(vectors))

\* save_chunk_embeddings. The statement is built from sqlalchemy's generic
\* insert (line 8), on which on_conflict_do_update is not a declared attribute
\* (the "type: ignore[attr-defined]" of line 127); upsertable tells whether
\* the installed construct offers it. Without it the first statement raises
\* AttributeError inside the transaction.
SaveChunkEmbeddings(d, vectors, fk, upsertable) ==
    IF vectors = << >>
    THEN [db |-> d, result |-> None, failed |-> FALSE]
    ELSE Transaction(
             d, [d EXCEPT !.chunk_embeddings = UpsertLoop(@, vectors)],
             /\ upsertable
             /\ fk => \A i \in 1..Len(vectors) :
                          vectors[i][1] \in Ids(d.chunks),
             None)

\* save_entity_embeddings
SaveEntityEmbeddings(d, vectors, fk, upsertable) ==
    IF vectors = << >>
    THEN [db |-> d, result |-> None, failed |-> FALSE]
    ELSE Transaction(
             d, [d EXCEPT !.entity_embeddings = UpsertLoop(@, vectors)],
             /\ upsertable
             /\ fk => \A i \in 1..Len(vectors) :
                          vectors[i][1] \in Ids(d.entities),
             None)

-----------------------------------------------------------------------------
(* Inputs *)

\* the sequences of at most n pairwise different members of S
RECURSIVE SeqsUpTo(_, _)
SeqsUpTo(S, n) ==
    IF n = 0
    THEN {<< >>}
    ELSE LET shorter == SeqsUpTo(S, n - 1)
         IN  shorter \cup
             {Append(q, x) : <<q, x>> \in
                 {y \in shorter \X S : \A i \in 1..Len(y[1]) : y[1][i] # y[2]}}

NoMeta == {}

\* entities as an extractor yields them, with names "A", " a ", "B" and "";
\* the second is another mention of "A" that differs in every other field
Candidates ==
    { WorldEntity(None, Some(1), "location", <<"A">>, "desc", NoMeta),
      WorldEntity(Some(2), None, "character", <<" ", "a", " ">>, "other",
                  {<<"k", "v">>}),
      WorldEntity(None, Some(1), "location", <<"B">>, "desc", NoMeta),
      WorldEntity(None, Some(1), "location", << >>, "desc", NoMeta) }

\* entities as the store returns them, with identifiers
Stored ==
    { WorldEntity(Some(1), Some(1), "location", <<"A">>, "desc", NoMeta),
      WorldEntity(Some(2), None, "character", <<" ", "a", " ">>, "other",
                  {<<"k", "v">>}),
      WorldEntity(Some(3), Some(1), "location", << >>, "desc", NoMeta) }

Relations ==
    { Relation(None, "ally_of", None, Some(<<"A">>), None, None, None, NoMeta),
      Relation(None, "ally_of", None, None, None, None, None, NoMeta),
      Relation(None, "rules", None, Some(<<" ", "a", " ">>),
               None, Some(<<"c">>), Some("text"), NoMeta),
      Relation(None, "ally_of", None, Some(<< >>), None, Some(<<" ">>),
               None, NoMeta),
      Relation(Some(7), "owns", Some(1), Some(<<"B">>), Some(9), None,
               Some("text"), {<<"k", "v">>}) }

RegisterInputs == SeqsUpTo(Candidates, MaxBatch)
UpdateInputs == SeqsUpTo(Stored, MaxStored)
ResolveInputs == SeqsUpTo(Relations, MaxRels)

-----------------------------------------------------------------------------
(* Inputs of the repository, and its state after construction *)

MaxCalls == 3      \* repository calls made in one behaviour
MaxChunks == 2     \* most chunks a document is cut into
MaxSaved == 2      \* longest batch passed to a save method

\* the text of the i-th chunk of a document
ChunkText(i) == <<"paragraph", i>>

ChunkTexts(n) == [i \in 1..n |-> ChunkText(i)]

\* Document(path=path, title=path.stem, content=text)
NewDocument == Document(None, "notes.md", "notes", "text", {})

EntityBatches ==
    SeqsUpTo({e \in Candidates : e.name \in {<<"A">>, <<" ", "a", " ">>}},
             MaxSaved)

RelationBatches ==
    SeqsUpTo({r \in Relations : r.subject_name = Some(<<"A">>)
                                \/ r.subject_entity_id = Some(1)},
             MaxSaved)

\* (chunk_id, vector) pairs: chunk 1 twice, with two vectors
ChunkVectorBatches ==
    SeqsUpTo({<<1, <<1, 0>>>>, <<1, <<0, 1>>>>}, MaxSaved)

\* (entity_id, vector) pairs: entities 1 and 2
EntityVectorBatches ==
    SeqsUpTo({<<1, <<1, 0>>>>, <<2, <<0, 1>>>>}, MaxSaved)

\* SQLAlchemyDocumentRepository.__init__
RepositoryInit ==
    /\ db = EmptyStore
    /\ dbPre = EmptyStore
    /\ call = [op |-> "init", args |-> << >>, result |-> None,
               failed |-> FALSE]
    /\ calls = 0

\* the local variables of execute, before any of them is bound
NoLocals ==
    [document |-> << >>, chunk_texts |-> << >>, stored |-> << >>,
     chunk_payload |-> << >>, entities |-> << >>, relations |-> << >>,
     novel_entities |-> << >>, stored_entities |-> << >>,
     entity_payload |-> << >>, resolved_relations |-> << >>,
     stored_relations |-> << >>, counts |-> << >>]

\* IngestDocumentUseCase.__init__
UseCaseInit ==
    /\ pc = "idle"
    /\ locals = NoLocals
    /\ steps = << >>
    /\ runs = 0

-----------------------------------------------------------------------------
(* The ledger as a state machine *)

\* DocumentLedger.__init__
Init ==
    /\ entities = << >>
    /\ pre = << >>
    /\ op = "init"
    /\ args = << >>
    /\ argsAfter = << >>
    /\ result = << >>
    /\ raised = FALSE

\* DocumentLedger.register_entities
RegisterEntities ==
    \E ents \in RegisterInputs :
        LET out == RegisterLoop(entities, ents, << >>)
        IN  /\ entities' = out.entities
            /\ result' = out.unique
            /\ pre' = entities
            /\ op' = "register"
            /\ args' = ents
            /\ argsAfter' = ents
            /\ UNCHANGED raised
            /\ UNCHANGED <<storeVars, executeVars>>

\* DocumentLedger.update_with_stored
UpdateWithStored ==
    \E ents \in UpdateInputs :
        /\ entities' = UpdateLoop(entities, ents)
        /\ result' = None
        /\ pre' = entities
        /\ op' = "update"
        /\ args' = ents
        /\ argsAfter' = ents
        /\ UNCHANGED raised
        /\ UNCHANGED <<storeVars, executeVars>>

\* DocumentLedger.resolve_relations
ResolveRelationsCall ==
    \E relations \in ResolveInputs :
        /\ raised' = (raised \/ ResolveRaises(relations))
        /\ result' = IF ResolveRaises(relations)
                     THEN None
                     ELSE ResolveRelations(entities, relations)
        /\ pre' = entities
        /\ op' = "resolve"
        /\ args' = relations
        /\ argsAfter' = InputAfterResolve(entities, relations)
        /\ UNCHANGED entities
        /\ UNCHANGED <<storeVars, executeVars>>

Next == RegisterEntities \/ UpdateWithStored \/ ResolveRelationsCall

\* the state once the ledger, the repository and the use case are constructed
Constructed == Init /\ RepositoryInit /\ UseCaseInit

Spec == Constructed /\ [][Next]_allVars

-----------------------------------------------------------------------------
(* The repository as a state machine: its save methods called in any order *)

\* the record kept of a repository call: what it was given, what it returned,
\* whether it raised
CallRecord(name, arguments, out) ==
    [op |-> name, args |-> arguments, result |-> out.result,
     failed |-> out.failed]

SaveDocumentWithChunksCall ==
    /\ calls < MaxCalls
    /\ \E n \in 0..MaxChunks :
        LET out == SaveDocumentWithChunks(db, NewDocument, ChunkTexts(n))
        IN  /\ db' = out.db
            /\ call' = CallRecord("save_document_with_chunks",
                                  <<NewDocument, ChunkTexts(n)>>, out)
    /\ dbPre' = db
    /\ calls' = calls + 1
    /\ UNCHANGED <<vars, executeVars>>

\* whether a connection enforces foreign keys depends on the connection the
\* pool hands out: the PRAGMA is issued on one connection only
SaveEntitiesCall ==
    /\ calls < MaxCalls
    /\ \E ents \in EntityBatches, fk \in BOOLEAN :
        LET out == SaveEntities(db, ents, fk)
        IN  /\ db' = out.db
            /\ call' = CallRecord("save_entities", ents, out)
    /\ dbPre' = db
    /\ calls' = calls + 1
    /\ UNCHANGED <<vars, executeVars>>

SaveRelationsCall ==
    /\ calls < MaxCalls
    /\ \E relations \in RelationBatches, fk \in BOOLEAN :
        LET out == SaveRelations(db, relations, fk)
        IN  /\ db' = out.db
            /\ call' = CallRecord("save_relations", relations, out)
    /\ dbPre' = db
    /\ calls' = calls + 1
    /\ UNCHANGED <<vars, executeVars>>

SaveChunkEmbeddingsCall ==
    /\ calls < MaxCalls
    /\ \E vectors \in ChunkVectorBatches, fk \in BOOLEAN, upsertable \in BOOLEAN :
        LET out == SaveChunkEmbeddings(db, vectors, fk, upsertable)
        IN  /\ db' = out.db
            /\ call' = CallRecord("save_chunk_embeddings", vectors, out)
    /\ dbPre' = db
    /\ calls' = calls + 1
    /\ UNCHANGED <<vars, executeVars>>

SaveEntityEmbeddingsCall ==
    /\ calls < MaxCalls
    /\ \E vectors \in EntityVectorBatches, fk \in BOOLEAN, upsertable \in BOOLEAN :
        LET out == SaveEntityEmbeddings(db, vectors, fk, upsertable)
        IN  /\ db' = out.db
            /\ call' = CallRecord("save_entity_embeddings", vectors, out)
    /\ dbPre' = db
    /\ calls' = calls + 1
    /\ UNCHANGED <<vars, executeVars>>

RepoNext ==
    \/ SaveDocumentWithChunksCall
    \/ SaveEntitiesCall
    \/ SaveRelationsCall
    \/ SaveChunkEmbeddingsCall
    \/ SaveEntityEmbeddingsCall

RepoSpec == Constructed /\ [][RepoNext]_allVars

-----------------------------------------------------------------------------
(* IngestDocumentUseCase.execute, one collaborator or ledger call per step *)

MaxRuns == 2       \* execute calls made in one behaviour

\* what an ExtractionService may return: the entities and relations of
\*   a document that mentions "A" twice, the second time as " a ", and "B";
\*   a document whose only entity has the empty name;
\*   a document with a relation and no entity;
\*   a document whose relation comes with identifiers of its own
Extractions ==
    LET named(name) == CHOOSE e \in Candidates : e.name = name
        from(name) == CHOOSE r \in Relations : r.subject_name = Some(name)
    IN  { [entities |-> <<named(<<"A">>), named(<<" ", "a", " ">>),
                          named(<<"B">>)>>,
           relations |-> <<from(<<" ", "a", " ">>), from(<<"A">>)>>],
          [entities |-> <<named(<< >>)>>,
           relations |-> <<from(<< >>)>>],
          [entities |-> << >>,
           relations |-> <<from(<<"A">>)>>],
          [entities |-> <<named(<<" ", "a", " ">>), named(<<"A">>)>>,
           relations |-> <<from(<<"B">>)>>] }

\* EmbeddingService.embed: a vector per text, the same for the same text
Embed(texts) == [i \in 1..Len(texts) |-> <<"embedding", texts[i]>>]

\* [(item.id, vector) for item, vector in zip(items, vectors)
\*  if item.id is not None]
RECURSIVE Payload(_, _)
Payload(items, vectors) ==
    IF items = << >> \/ vectors = << >>
    THEN << >>
    ELSE (IF Head(items).id # None
          THEN << <<Head(items).id[1], Head(vectors)>> >>
          ELSE << >>) \o Payload(Tail(items), Tail(vectors))

\* a ledger kept from one execute call to the next
KeptLedger(previous) == previous

\* ledger = DocumentLedger(): whatever ledger an earlier call made, this one
\* starts empty
NewLedger(previous) == << >>

\* the statements of execute with resolve_relations moved before
\* update_with_stored
FollowsResolveEarly(step) ==
    CASE step = "chunk" -> "save_document_with_chunks"
      [] step = "save_document_with_chunks" -> "embed_chunks"
      [] step = "embed_chunks" -> "save_chunk_embeddings"
      [] step = "save_chunk_embeddings" -> "extract"
      [] step = "extract" -> "register_entities"
      [] step = "register_entities" -> "save_entities"
      [] step = "save_entities" -> "resolve_relations"
      [] step = "resolve_relations" -> "update_with_stored"
      [] step = "update_with_stored" -> "embed_entities"
      [] step = "embed_entities" -> "save_entity_embeddings"
      [] step = "save_entity_embeddings" -> "save_relations"
      [] step = "save_relations" -> "returned"

\* the statement of execute that follows the call named step
Follows(step) ==
    CASE step = "chunk" -> "save_document_with_chunks"
      [] step = "save_document_with_chunks" -> "embed_chunks"
      [] step = "embed_chunks" -> "save_chunk_embeddings"
      [] step = "save_chunk_embeddings" -> "extract"
      [] step = "extract" -> "register_entities"
      [] step = "register_entities" -> "save_entities"
      [] step = "save_entities" -> "update_with_stored"
      [] step = "update_with_stored" -> "embed_entities"
      [] step = "embed_entities" -> "save_entity_embeddings"
      [] step = "save_entity_embeddings" -> "resolve_relations"
      [] step = "resolve_relations" -> "save_relations"
      [] step = "save_relations" -> "returned"

\* the steps that call the chunker, the repository, the embedding service or
\* the extractor
CollaboratorSteps ==
    {"chunk", "save_document_with_chunks", "embed_chunks",
     "save_chunk_embeddings", "extract", "save_entities", "embed_entities",
     "save_entity_embeddings", "save_relations"}

\* execute is called: lines 34-35
Begin ==
    /\ pc \in {"idle", "returned", "raised"}
    /\ runs < MaxRuns
    /\ runs' = runs + 1
    /\ pc' = "chunk"
    /\ locals' = [NoLocals EXCEPT !.document = NewDocument]
    /\ steps' = << >>
    /\ dbPre' = db
    /\ UNCHANGED <<vars, db, call, calls>>

\* line 37; a Chunker may return any sequence of texts
Chunk ==
    /\ pc = "chunk"
    /\ \E n \in 0..MaxChunks :
           locals' = [locals EXCEPT !.chunk_texts = ChunkTexts(n)]
    /\ pc' = Follows(pc)
    /\ steps' = Append(steps, pc)
    /\ UNCHANGED <<vars, storeVars, runs>>

\* line 38
SaveDocumentWithChunksStep ==
    /\ pc = "save_document_with_chunks"
    /\ LET out == SaveDocumentWithChunks(db, locals.document,
                                         locals.chunk_texts)
       IN  /\ db' = out.db
           /\ locals' = [locals EXCEPT !.stored = out.result]
           /\ pc' = IF out.failed THEN "raised" ELSE Follows(pc)
    /\ steps' = Append(steps, pc)
    /\ UNCHANGED <<vars, dbPre, call, calls, runs>>

\* lines 41-46
EmbedChunks ==
    /\ pc = "embed_chunks"
    /\ locals' =
          [locals EXCEPT !.chunk_payload =
              Payload(locals.stored.chunks,
                      Embed([i \in 1..Len(locals.stored.chunks) |->
                                locals.stored.chunks[i].text]))]
    /\ pc' = Follows(pc)
    /\ steps' = Append(steps, pc)
    /\ UNCHANGED <<vars, storeVars, runs>>

\* line 47
SaveChunkEmbeddingsStep ==
    /\ pc = "save_chunk_embeddings"
    /\ \E fk \in BOOLEAN, upsertable \in BOOLEAN :
           LET out == SaveChunkEmbeddings(db, locals.chunk_payload, fk,
                                          upsertable)
           IN  /\ db' = out.db
               /\ pc' = IF out.failed THEN "raised" ELSE Follows(pc)
    /\ steps' = Append(steps, pc)
    /\ UNCHANGED <<vars, dbPre, call, calls, locals, runs>>

\* line 49
Extract ==
    /\ pc = "extract"
    /\ \E extraction \in Extractions :
           locals' = [locals EXCEPT !.entities = extraction.entities,
                                    !.relations = extraction.relations]
    /\ pc' = Follows(pc)
    /\ steps' = Append(steps, pc)
    /\ UNCHANGED <<vars, storeVars, runs>>

\* lines 51-52
RegisterEntitiesStep ==
    /\ pc = "register_entities"
    /\ LET out == RegisterLoop(NewLedger(entities), locals.entities, << >>)
       IN  /\ entities' = out.entities
           /\ locals' = [locals EXCEPT !.novel_entities = out.unique]
    /\ pc' = Follows(pc)
    /\ steps' = Append(steps, pc)
    /\ UNCHANGED <<ledgerHistory, storeVars, runs>>

\* line 53
SaveEntitiesStep ==
    /\ pc = "save_entities"
    /\ \E fk \in BOOLEAN :
           LET out == SaveEntities(db, locals.novel_entities, fk)
           IN  /\ db' = out.db
               /\ locals' = [locals EXCEPT !.stored_entities = out.result]
               /\ pc' = IF out.failed THEN "raised" ELSE Follows(pc)
    /\ steps' = Append(steps, pc)
    /\ UNCHANGED <<vars, dbPre, call, calls, runs>>

\* line 54
UpdateWithStoredStep ==
    /\ pc = "update_with_stored"
    /\ entities' = UpdateLoop(entities, locals.stored_entities)
    /\ pc' = Follows(pc)
    /\ steps' = Append(steps, pc)
    /\ UNCHANGED <<ledgerHistory, storeVars, locals, runs>>

\* lines 56-61
EmbedEntities ==
    /\ pc = "embed_entities"
    /\ locals' =
          [locals EXCEPT !.entity_payload =
              Payload(locals.stored_entities,
                      Embed([i \in 1..Len(locals.stored_entities) |->
                                locals.stored_entities[i].description]))]
    /\ pc' = Follows(pc)
    /\ steps' = Append(steps, pc)
    /\ UNCHANGED <<vars, storeVars, runs>>

\* line 62
SaveEntityEmbeddingsStep ==
    /\ pc = "save_entity_embeddings"
    /\ \E fk \in BOOLEAN, upsertable \in BOOLEAN :
           LET out == SaveEntityEmbeddings(db, locals.entity_payload, fk,
                                           upsertable)
           IN  /\ db' = out.db
               /\ pc' = IF out.failed THEN "raised" ELSE Follows(pc)
    /\ steps' = Append(steps, pc)
    /\ UNCHANGED <<vars, dbPre, call, calls, locals, runs>>

\* line 64
ResolveRelationsStep ==
    /\ pc = "resolve_relations"
    /\ locals' =
          [locals EXCEPT !.resolved_relations =
              IF ResolveRaises(locals.relations)
              THEN << >>
              ELSE ResolveRelations(entities, locals.relations)]
    /\ pc' = IF ResolveRaises(locals.relations) THEN "raised" ELSE Follows(pc)
    /\ steps' = Append(steps, pc)
    /\ UNCHANGED <<vars, storeVars, runs>>

\* lines 65-71
SaveRelationsStep ==
    /\ pc = "save_relations"
    /\ \E fk \in BOOLEAN :
           LET out == SaveRelations(db, locals.resolved_relations, fk)
           IN  /\ db' = out.db
               /\ locals' =
                     [locals EXCEPT
                         !.stored_relations = out.result,
                         !.counts =
                             IF out.failed
                             THEN None
                             ELSE Some([chunks |-> Len(locals.stored.chunks),
                                        entities |->
                                            Len(locals.stored_entities),
                                        relations |->
                                            Len(locals.resolved_relations)])]
               /\ pc' = IF out.failed THEN "raised" ELSE Follows(pc)
    /\ steps' = Append(steps, pc)
    /\ UNCHANGED <<vars, dbPre, call, calls, runs>>

\* a collaborator raises: execute has no try or except, so the exception
\* leaves it at once; a store write that raises rolls its own transaction back
Raise ==
    /\ pc \in CollaboratorSteps
    /\ pc' = "raised"
    /\ steps' = Append(steps, pc)
    /\ UNCHANGED <<vars, storeVars, locals, runs>>

IngestNext ==
    \/ Begin
    \/ Chunk
    \/ SaveDocumentWithChunksStep
    \/ EmbedChunks
    \/ SaveChunkEmbeddingsStep
    \/ Extract
    \/ RegisterEntitiesStep
    \/ SaveEntitiesStep
    \/ UpdateWithStoredStep
    \/ EmbedEntities
    \/ SaveEntityEmbeddingsStep
    \/ ResolveRelationsStep
    \/ SaveRelationsStep
    \/ Raise

IngestSpec == Constructed /\ [][IngestNext]_allVars

-----------------------------------------------------------------------------
(* ChatUseCase.answer over the repository's two searches *)

MaxLimit == 2      \* largest `limit` passed to answer

\* the query texts: one that occurs in the stored names, one that occurs in
\* no name and no description, the empty text
Queries == {<<"a">>, <<"z">>, << >>}

\* `limit` counts entities
Limits == 0..MaxLimit

\* the characters of a description of the model's entities
Characters(description) ==
    CASE description = "desc" -> <<"d", "e", "s", "c">>
      [] description = "other" -> <<"o", "t", "h", "e", "r">>

\* json.loads: the value of a text written by json.dumps
JsonLoads(text) == text[2]

\* _row_to_entity
RowToEntity(row) ==
    WorldEntity(Some(row.id), row.chunk_id, row.entity_type, row.name,
                row.description, JsonLoads(row.metadata))

\* order_by(id.desc())
RECURSIVE OrderByIdDesc(_)
OrderByIdDesc(rows) ==
    IF rows = << >>
    THEN << >>
    ELSE LET i == CHOOSE i \in 1..Len(rows) :
                      \A j \in 1..Len(rows) : rows[j].id <= rows[i].id
         IN  <<rows[i]>> \o
             OrderByIdDesc(SubSeq(rows, 1, i - 1) \o
                           SubSeq(rows, i + 1, Len(rows)))

\* .limit(limit), for a limit that is not negative
Limit(rows, limit) ==
    SubSeq(rows, 1, IF limit < Len(rows) THEN limit ELSE Len(rows))

\* column.ilike(f"%{query}%") for a query without the wildcards % and _: the
\* column holds the query somewhere, letter case set aside
ILike(column, query) ==
    \E i \in 0..(Len(column) - Len(query)) :
        Lower(SubSeq(column, i + 1, i + Len(query))) = Lower(query)

\* .where(or_(name.ilike(pattern), description.ilike(pattern)))
RECURSIVE WhereMatches(_, _)
WhereMatches(rows, query) ==
    IF rows = << >>
    THEN << >>
    ELSE (IF \/ ILike(Head(rows).name, query)
             \/ ILike(Characters(Head(rows).description), query)
          THEN <<Head(rows)>>
          ELSE << >>) \o WhereMatches(Tail(rows), query)

\* search_entities
SearchEntities(d, query, limit) ==
    LET rows == Limit(OrderByIdDesc(WhereMatches(d.entities, query)), limit)
    IN  [i \in 1..Len(rows) |-> RowToEntity(rows[i])]

\* search_entities_by_embedding: the embedding is not looked at
SearchEntitiesByEmbedding(d, embedding, limit) ==
    LET rows == Limit(OrderByIdDesc(d.entities), limit)
    IN  [i \in 1..Len(rows) |-> RowToEntity(rows[i])]

\* the record kept of a search the use case made
Searched(method, returned) == [method |-> method, returned |-> returned]

\* _search asking the text search first and the embedding search second
SearchTextFirst(d, query, limit) ==
    LET query_vec == Embed(<<query>>)[1]
        by_text == SearchEntities(d, query, limit)
        matches == SearchEntitiesByEmbedding(d, query_vec, limit)
    IN  IF by_text # << >>
        THEN [matches |-> by_text,
              searches |-> <<Searched("search_entities", by_text)>>]
        ELSE [matches |-> matches,
              searches |-> <<Searched("search_entities", by_text),
                             Searched("search_entities_by_embedding",
                                      matches)>>]

\* ChatUseCase._search, with the searches it made
Search(d, query, limit) ==
    LET query_vec == Embed(<<query>>)[1]
        matches == SearchEntitiesByEmbedding(d, query_vec, limit)
        by_text == SearchEntities(d, query, limit)
    IN  IF matches # << >>
        THEN [matches |-> matches,
              searches |-> <<Searched("search_entities_by_embedding",
                                      matches)>>]
        ELSE [matches |-> by_text,
              searches |-> <<Searched("search_entities_by_embedding",
                                      matches),
                             Searched("search_entities", by_text)>>]

NothingFound ==
    <<"I couldn't find anything about that yet. Try ingesting more documents.">>

\* f"- [{entity.entity_type.value}] {entity.name}: {entity.description}"
EntityLine(entity) ==
    <<"- [", entity.entity_type, "] ", entity.name, ": ", entity.description>>

\* ChatUseCase.answer: the lines of the text it returns, which it joins with
\* newlines, and the searches made on the way
Answer(d, query, limit) ==
    LET found == Search(d, query, limit)
    IN  IF found.matches = << >>
        THEN [lines |-> NothingFound, searches |-> found.searches]
        ELSE [lines |-> <<"Here's what I know:">> \o
                        [i \in 1..Len(found.matches) |->
                            EntityLine(found.matches[i])],
              searches |-> found.searches]

\* answer(query, limit) on the store as it stands; the store is only read
AnswerCall ==
    /\ calls < MaxCalls
    /\ \E query \in Queries, limit \in Limits :
        call' = [op |-> "answer", args |-> <<query, limit>>,
                 result |-> Answer(db, query, limit), failed |-> FALSE]
    /\ db' = db
    /\ dbPre' = db
    /\ calls' = calls + 1
    /\ UNCHANGED <<vars, executeVars>>

\* entities are saved and questions are asked, in any order
ChatNext ==
    \/ SaveEntitiesCall
    \/ AnswerCall

ChatSpec == Constructed /\ [][ChatNext]_allVars

-----------------------------------------------------------------------------
(* SimpleParagraphChunker.chunk *)

MaxText == 5       \* longest text passed to chunk
MaxChars == 3      \* largest max_chars a chunker is constructed with

\* the texts of at most n characters
RECURSIVE TextsUpTo(_)
TextsUpTo(n) ==
    IF n = 0
    THEN {<< >>}
    ELSE LET shorter == TextsUpTo(n - 1)
         IN  shorter \cup
             {Append(t, c) : <<t, c>> \in shorter \X {"a", "b", " ", "\n"}}

Texts == TextsUpTo(MaxText)

\* max_chars; textwrap rejects a width below 1
Widths == 1..MaxChars

\* text.split("\n\n"): the pieces between the separators, found left to right
RECURSIVE Split(_)
Split(text) ==
    LET at == {i \in 1..(Len(text) - 1) :
                  text[i] = "\n" /\ text[i + 1] = "\n"}
    IN  IF at = {}
        THEN <<text>>
        ELSE LET i == CHOOSE i \in at : \A j \in at : i <= j
             IN  <<SubSeq(text, 1, i - 1)>> \o
                 Split(SubSeq(text, i + 2, Len(text)))

\* [p.strip() for p in text.split("\n\n") if p.strip()]
RECURSIVE Paragraphs(_)
Paragraphs(pieces) ==
    IF pieces = << >>
    THEN << >>
    ELSE (IF Strip(Head(pieces)) # << >>
          THEN <<Strip(Head(pieces))>>
          ELSE << >>) \o Paragraphs(Tail(pieces))

\* TextWrapper._munge_whitespace: every whitespace character becomes a space
MungeWhitespace(text) ==
    [i \in 1..Len(text) |-> IF IsSpace(text[i]) THEN " " ELSE text[i]]

\* TextWrapper._split for a text without hyphens: the runs of spaces and the
\* runs of other characters, in order
RECURSIVE SplitChunks(_)
SplitChunks(text) ==
    IF text = << >>
    THEN << >>
    ELSE LET n == CHOOSE n \in 1..Len(text) :
                      /\ \A i \in 1..n : IsSpace(text[i]) = IsSpace(text[1])
                      /\ n = Len(text)
                         \/ IsSpace(text[n + 1]) # IsSpace(text[1])
         IN  <<SubSeq(text, 1, n)>> \o
             SplitChunks(SubSeq(text, n + 1, Len(text)))

\* chunk.strip() == ''
IsBlank(chunk) == \A i \in 1..Len(chunk) : IsSpace(chunk[i])

\* ''.join(cur_line)
RECURSIVE Join(_)
Join(parts) == IF parts = << >> THEN << >> ELSE Head(parts) \o Join(Tail(parts))

\* the inner loop of _wrap_chunks: chunks move to the line while they fit
RECURSIVE FillLine(_, _, _, _)
FillLine(chunks, cur_line, cur_len, width) ==
    IF chunks # << >> /\ cur_len + Len(Head(chunks)) <= width
    THEN FillLine(Tail(chunks), Append(cur_line, Head(chunks)),
                  cur_len + Len(Head(chunks)), width)
    ELSE [chunks |-> chunks, cur_line |-> cur_line, cur_len |-> cur_len]

\* TextWrapper._handle_long_word with break_long_words and no hyphen: the
\* part of the chunk that fits goes to the line, the rest stays
HandleLongWord(chunks, cur_line, cur_len, width) ==
    LET space_left == IF width < 1 THEN 1 ELSE width - cur_len
        chunk == Head(chunks)
    IN  [chunks |-> <<SubSeq(chunk, space_left + 1, Len(chunk))>> \o
                    Tail(chunks),
         cur_line |-> Append(cur_line, SubSeq(chunk, 1, space_left)),
         cur_len |-> cur_len + space_left]

\* TextWrapper._wrap_chunks with drop_whitespace and no indent
RECURSIVE WrapChunks(_, _, _)
WrapChunks(chunks, lines, width) ==
    IF chunks = << >>
    THEN lines
    ELSE LET rest == IF IsBlank(Head(chunks)) /\ lines # << >>
                     THEN Tail(chunks)
                     ELSE chunks
             filled == FillLine(rest, << >>, 0, width)
             line == IF filled.chunks # << >>
                        /\ Len(Head(filled.chunks)) > width
                     THEN HandleLongWord(filled.chunks, filled.cur_line,
                                         filled.cur_len, width)
                     ELSE filled
             cur_line == IF line.cur_line # << >>
                            /\ IsBlank(line.cur_line[Len(line.cur_line)])
                         THEN SubSeq(line.cur_line, 1, Len(line.cur_line) - 1)
                         ELSE line.cur_line
         IN  WrapChunks(line.chunks,
                        IF cur_line # << >>
                        THEN Append(lines, Join(cur_line))
                        ELSE lines,
                        width)

\* textwrap.wrap(text, width)
Wrap(text, width) ==
    WrapChunks(SplitChunks(MungeWhitespace(text)), << >>, width)

\* the loop of chunk over the paragraphs
RECURSIVE ChunkLoop(_, _)
ChunkLoop(paragraphs, max_chars) ==
    IF paragraphs = << >>
    THEN << >>
    ELSE (IF Len(Head(paragraphs)) <= max_chars
          THEN <<Head(paragraphs)>>
          ELSE Wrap(Head(paragraphs), max_chars))
         \o ChunkLoop(Tail(paragraphs), max_chars)

\* SimpleParagraphChunker(max_chars).chunk(text)
ChunkOf(text, max_chars) ==
    LET chunks == ChunkLoop(Paragraphs(Split(text)), max_chars)
    IN  IF chunks # << >> THEN chunks ELSE <<text>>

\* chunk keeps no state between calls: one call per behaviour, on any text
ChunkCall ==
    /\ call.op = "init"
    /\ \E text \in Texts, max_chars \in Widths :
        call' = [op |-> "chunk", args |-> <<text, max_chars>>,
                 result |-> ChunkOf(text, max_chars), failed |-> FALSE]
    /\ UNCHANGED <<db, dbPre, calls, vars, executeVars>>

ChunkerSpec == Constructed /\ [][ChunkCall]_allVars

-----------------------------------------------------------------------------
(* OpenRouterExtractionService._to_result *)

MaxRecords == 2    \* most raw entity records in a payload

\* the values json.loads returns: None, str, int, list, dict
JNull == [kind |-> "null"]
JStr(text) == [kind |-> "string", text |-> text]
JInt(n) == [kind |-> "int", number |-> n]
JArray(items) == [kind |-> "array", items |-> items]
JObject(fields) == [kind |-> "object", fields |-> fields]

\* an exception leaving a method
Raised == [raised |-> TRUE, value |-> None]
Return(value) == [raised |-> FALSE, value |-> value]

\* bool(value)
JTruthy(v) ==
    CASE v.kind = "null" -> FALSE
      [] v.kind = "string" -> v.text # << >>
      [] v.kind = "int" -> v.number # 0
      [] v.kind = "array" -> v.items # << >>
      [] v.kind = "object" -> DOMAIN v.fields # {}

\* a or b
Or(a, b) == IF JTruthy(a) THEN a ELSE b

\* str(value) of a string, of None and of an int below ten
Str(v) ==
    CASE v.kind = "string" -> v.text
      [] v.kind = "null" -> <<"N", "o", "n", "e">>
      [] v.kind = "int" -> <<ToString(v.number)>>

\* data.get(key, default) on a dict
Get(data, key, default) ==
    IF key \in DOMAIN data.fields THEN data.fields[key] ELSE default

\* iter(value): a list gives its items, a str its characters, a dict its
\* keys, an int is not iterable
Iterate(v) ==
    CASE v.kind = "array" -> Return(v.items)
      [] v.kind = "string" ->
            Return([i \in 1..Len(v.text) |-> JStr(<<v.text[i]>>)])
      [] v.kind = "object" ->
            Return([i \in 1..Cardinality(DOMAIN v.fields) |->
                         JStr(<<"key">>)])
      [] OTHER -> Raised

\* the values of EntityType
EntityTypeValue ==
    [character |-> <<"c", "h", "a", "r", "a", "c", "t", "e", "r">>,
     location |-> <<"l", "o", "c", "a", "t", "i", "o", "n">>,
     organization |-> <<"o", "r", "g", "a", "n", "i", "z", "a", "t", "i",
                        "o", "n">>,
     item |-> <<"i", "t", "e", "m">>,
     faction |-> <<"f", "a", "c", "t", "i", "o", "n">>,
     event |-> <<"e", "v", "e", "n", "t">>,
     concept |-> <<"c", "o", "n", "c", "e", "p", "t">>]

\* _parse_entity_type
ParseEntityType(value) ==
    IF \E t \in DOMAIN EntityTypeValue : EntityTypeValue[t] = value
    THEN CHOOSE t \in DOMAIN EntityTypeValue : EntityTypeValue[t] = value
    ELSE IF value = <<"n", "p", "c">>
         THEN "character"
         ELSE IF value = EntityTypeValue.organization
              THEN "organization"
              ELSE "concept"

\* metadata: Dict[str, Optional[str]] as the model class validates it
ValidMetadata(fields) ==
    \A k \in DOMAIN fields : fields[k].kind \in {"string", "null"}

\* _to_entity; a record that is no dict has no get, and the entity class
\* rejects attributes that are not texts
ToEntity(data, chunks) ==
    IF data.kind # "object"
    THEN Raised
    ELSE LET raw_type ==
                 Lower(Str(Get(data, "type",
                               JStr(EntityTypeValue.concept))))
             entity_type == ParseEntityType(raw_type)
             chunk_index == Get(data, "chunk_index", JNull)
             chunk_id ==
                 IF /\ chunk_index.kind = "int"
                    /\ chunk_index.number \in 0..(Len(chunks) - 1)
                 THEN chunks[chunk_index.number + 1].id
                 ELSE None
             attributes == Get(data, "attributes", JNull)
             metadata == IF attributes.kind = "object"
                         THEN attributes.fields
                         ELSE << >>
             description ==
                 Str(Or(Get(data, "description", JNull), JStr(<< >>)))
         IN  IF ValidMetadata(metadata)
             THEN Return(
                    WorldEntity(None, chunk_id, entity_type,
                                Str(Or(Get(data, "name", JNull),
                                       JStr(<<"Unnamed">>))),
                                IF description # << >>
                                THEN description
                                ELSE <<"No description provided.">>,
                                metadata))
             ELSE Raised

\* the loop of _to_relations over the relation records
RECURSIVE RelationsLoop(_, _, _)
RelationsLoop(rels, source_name, out) ==
    IF rels = << >>
    THEN Return(out)
    ELSE LET rel == Head(rels)
         IN  IF rel.kind # "object"
             THEN Raised
             ELSE LET predicate ==
                          Str(Or(Get(rel, "predicate", JNull),
                                 Or(Get(rel, "type", JNull),
                                    JStr(<<"related_to">>))))
                      target == Or(Get(rel, "target", JNull),
                                   Get(rel, "name", JNull))
                  IN  IF ~JTruthy(target)
                      THEN RelationsLoop(Tail(rels), source_name, out)
                      ELSE RelationsLoop(
                             Tail(rels), source_name,
                             Append(out,
                                Relation(None, predicate, None,
                                         Some(source_name), None,
                                         Some(Str(target)),
                                         Some(Str(Or(Get(rel, "description",
                                                         JNull),
                                                     JStr(<< >>)))),
                                         NoMeta)))

\* _to_relations
ToRelations(data, source_name) ==
    LET rels == Iterate(Or(Get(data, "relations", JNull), JArray(<< >>)))
    IN  IF rels.raised
        THEN Raised
        ELSE RelationsLoop(rels.value, source_name, << >>)

\* the loop of _to_result over the raw entity records: only _to_entity is
\* inside the try block
RECURSIVE ResultLoop(_, _, _, _)
ResultLoop(raw_entities, chunks, ents, relations) ==
    IF raw_entities = << >>
    THEN Return([entities |-> ents, relations |-> relations])
    ELSE LET entity == ToEntity(Head(raw_entities), chunks)
         IN  IF entity.raised
             THEN ResultLoop(Tail(raw_entities), chunks, ents, relations)
             ELSE LET rels == ToRelations(Head(raw_entities),
                                          entity.value.name)
                  IN  IF rels.raised
                      THEN Raised
                      ELSE ResultLoop(Tail(raw_entities), chunks,
                                      Append(ents, entity.value),
                                      relations \o rels.value)

\* _to_result
ToResult(payload, chunks) ==
    IF payload.kind # "object"
    THEN Raised
    ELSE LET raw_entities ==
                 Iterate(Or(Get(payload, "entities", JNull), JArray(<< >>)))
         IN  IF raw_entities.raised
             THEN Raised
             ELSE ResultLoop(raw_entities.value, chunks, << >>, << >>)

\* a relation record as the prompt asks for it
RelationRecord ==
    JObject([predicate |-> JStr(<<"r", "u", "l", "e", "s">>),
             target |-> JStr(<<"B">>),
             description |-> JStr(<<"t", "e", "x", "t">>)])

\* raw entity records: as the prompt asks for them, and malformed ones
RawEntities ==
    { JObject([name |-> JStr(<<"A">>), type |-> JStr(<<"n", "p", "c">>),
               description |-> JStr(<<"d">>), chunk_index |-> JInt(0),
               attributes |-> JObject([k |-> JStr(<<"v">>)]),
               relations |-> JArray(<<RelationRecord>>)]),
      JObject([name |-> JStr(<<"B">>), type |-> JStr(<<"N", "P", "C">>),
               chunk_index |-> JInt(5)]),
      JObject([name |-> JStr(<<"C">>), type |-> JStr(<<"i", "t", "e", "m">>),
               chunk_index |-> JStr(<<"0">>)]),
      JObject([type |-> JStr(<<"w", "i", "z">>)]),
      JObject([name |-> JNull, type |-> JNull,
               description |-> JStr(<< >>)]),
      JObject([name |-> JInt(5), relations |-> JNull]),
      JStr(<<"j", "u", "n", "k">>),
      JObject([name |-> JStr(<<"A">>),
               attributes |-> JObject([age |-> JInt(5)])]),
      JObject([name |-> JStr(<<"A">>),
               relations |->
                   JArray(<<JObject([predicate |-> JStr(<<"x">>)]),
                            JObject([name |-> JStr(<<"C">>),
                                     type |-> JStr(<<"o", "w", "n", "s">>)]),
                            JObject([target |-> JInt(5)])>>)]),
      JObject([name |-> JStr(<<"A">>),
               relations |-> JArray(<<RelationRecord, JStr(<<"B">>)>>)]),
      JObject([name |-> JStr(<<"A">>), relations |-> RelationRecord]),
      JObject([name |-> JStr(<<"A">>), relations |-> JInt(5)]) }

\* parsed payloads: an object whose "entities" is a list of raw records, is
\* absent, is null, is a text or a number; and a payload that is a list
Payloads ==
    {JObject([entities |-> JArray(records)]) :
        records \in SeqsUpTo(RawEntities, MaxRecords)}
    \cup {JObject([note |-> JNull]), JObject([entities |-> JNull]),
          JObject([entities |-> JStr(<<"a", "b">>)]),
          JObject([entities |-> JInt(5)]),
          JArray(<< >>)}

\* the stored chunks a payload is read against: one chunk, with id 1
ExtractedChunks == <<DocumentChunk(Some(1), Some(1), 0, ChunkText(1))>>

\* _to_result keeps no state between calls: one call per behaviour, on any
\* payload
ToResultCall ==
    /\ call.op = "init"
    /\ \E payload \in Payloads :
        LET out == ToResult(payload, ExtractedChunks)
        IN  call' = [op |-> "to_result", args |-> <<payload, ExtractedChunks>>,
                     result |-> out.value, failed |-> out.raised]
    /\ UNCHANGED <<db, dbPre, calls, vars, executeVars>>

ExtractorSpec == Constructed /\ [][ToResultCall]_allVars

-----------------------------------------------------------------------------
(* Vocabulary of the properties *)

Range(q) == {q[i] : i \in 1..Len(q)}

ToLower == [c \in {"A", "B", "C"} |-> CASE c = "A" -> "a" [] c = "B" -> "b" [] c = "C" -> "c"]

\* the normalized name: trimmed of surrounding blanks, lower-cased
Normalized(name) ==
    LET solid == {i \in 1..Len(name) : name[i] # " "}
    IN  IF solid = {}
        THEN << >>
        ELSE LET lo == CHOOSE i \in solid : \A j \in solid : i <= j
                 hi == CHOOSE i \in solid : \A j \in solid : j <= i
             IN  [j \in 1..(hi - lo + 1) |->
                    IF name[lo + j - 1] \in DOMAIN ToLower
                    THEN ToLower[name[lo + j - 1]]
                    ELSE name[lo + j - 1]]

\* positions of the candidates that are the first of their normalized name
FirstMentions(ents) ==
    {i \in 1..Len(ents) :
        \A j \in 1..(i - 1) : Normalized(ents[j].name) # Normalized(ents[i].name)}

\* the subsequence of ents at the positions in keep
Pick(ents, keep) ==
    [k \in 1..Cardinality(keep) |->
        ents[CHOOSE i \in keep : Cardinality({j \in keep : j <= i}) = k]]

\* the names of a sequence of entities, in order
NamesOf(ents) == [i \in 1..Len(ents) |-> ents[i].name]

\* names a relation may refer to an entity by
ProbeNames ==
    { <<"A">>, <<"a">>, <<" ", "a", " ">>, <<"A", " ">>, <<"B">>, <<" ", "b">>,
      << >>, <<" ">>, <<" ", " ">> }

\* make_relation(subject, obj) of the ledger's tests
MakeRelation(subject, obj) ==
    Relation(None, "ally_of", None, subject, None, obj, None, NoMeta)

\* the key under which d holds an entity whose normalized name is that of name
HoldsName(d, name) ==
    \E k \in 1..Len(d) : d[k].key = Normalized(name)

\* a relation's two endpoints as [id, name] records
Endpoints(relation) ==
    << [id |-> relation.subject_entity_id, name |-> relation.subject_name],
       [id |-> relation.object_entity_id, name |-> relation.object_name] >>

-----------------------------------------------------------------------------
(* Properties *)

\* C1: register_entities on a freshly created (empty) ledger returns exactly
\* the subsequence of first candidates of each normalized name, in input order.
C1_RegisterReturnsFirstMentions ==
    (op = "register" /\ pre = << >>) =>
        result = Pick(args, FirstMentions(args))

\* C1 case: ["A", " a ", "B"] on a fresh ledger returned ["A", "B"]
C1_Witness ==
    /\ op = "register"
    /\ pre = << >>
    /\ NamesOf(args) = << <<"A">>, <<" ", "a", " ">>, <<"B">> >>
    /\ NamesOf(result) = << <<"A">>, <<"B">> >>

\* C2: for every register_entities call in any ledger state, the returned
\* entities have pairwise different normalized names, and every discarded
\* candidate has the normalized name of an entity the ledger keeps under
\* that name after the call.
C2_RegisterDistinctAndDiscardsKept ==
    op = "register" =>
        /\ \A i, j \in 1..Len(result) :
              i # j => Normalized(result[i].name) # Normalized(result[j].name)
        /\ \A i \in 1..Len(args) :
              args[i] \notin Range(result) =>
                  \E k \in 1..Len(entities) :
                      /\ entities[k].key = Normalized(args[i].name)
                      /\ Normalized(entities[k].value.name) = Normalized(args[i].name)

\* C2 case: a call on a non-empty ledger that kept two candidates and
\* discarded one for a name held since an earlier call
C2_Witness ==
    /\ op = "register"
    /\ pre # << >>
    /\ Len(result) = 2
    /\ \E i \in 1..Len(args) :
          /\ args[i] \notin Range(result)
          /\ Has(pre, Normalized(args[i].name))

\* C3: after an entity named n is registered and update_with_stored is then
\* called with an entity of the same normalized name carrying identifier i,
\* resolve_relations fills i into every null subject (object) identifier whose
\* name normalizes to the key of n, whatever its case and surrounding blanks.
\* Stated in the state update_with_stored leaves: n is the name the ledger
\* held without an identifier when the call began.
C3_ResolveAfterUpdateFillsId ==
    op = "update" =>
        \A i \in 1..Len(args) :
            ( /\ \E k \in 1..Len(pre) :
                    /\ Normalized(pre[k].value.name) = Normalized(args[i].name)
                    /\ pre[k].value.id = None
              /\ \A j \in (i + 1)..Len(args) :
                    Normalized(args[j].name) # Normalized(args[i].name) )
            => \A name \in ProbeNames :
                   Normalized(name) = Normalized(args[i].name) =>
                       /\ ResolveRelations(entities,
                              << MakeRelation(Some(name), None) >>)[1].subject_entity_id
                          = args[i].id
                       /\ ResolveRelations(entities,
                              << MakeRelation(None, Some(name)) >>)[1].object_entity_id
                          = args[i].id

\* C4: no ledger method raises, and resolving a relation without identifiers
\* whose subject and object names are each null, empty or unregistered returns
\* it with both endpoint identifiers null.
C4_LedgerNeverRaises ==
    /\ ~raised
    /\ op = "resolve" =>
          /\ Len(result) = Len(args)
          /\ \A i \in 1..Len(args) :
                ( \A e \in Range(Endpoints(args[i])) :
                      /\ e.id = None
                      /\ \/ e.name = None
                         \/ e.name[1] = << >>
                         \/ ~HoldsName(entities, e.name[1]) )
                => /\ result[i].subject_entity_id = None
                   /\ result[i].object_entity_id = None

\* C4 case: on a non-empty ledger, a relation from "" to the unregistered " "
\* and one with no names at all came back with null identifiers
C4_Witness ==
    /\ op = "resolve"
    /\ entities # << >>
    /\ ~HoldsName(entities, << >>)
    /\ ~raised
    /\ \E i, j \in 1..Len(args) :
          /\ args[i].subject_name = Some(<< >>)
          /\ args[i].object_name = Some(<<" ">>)
          /\ result[i].subject_entity_id = None
          /\ result[i].object_entity_id = None
          /\ args[j].subject_name = None
          /\ args[j].object_name = None
          /\ result[j] = args[j]

\* C5: resolve_relations never fabricates an identifier: an endpoint with a
\* null identifier whose name matches no key of the ledger keeps a null
\* identifier and its name; every non-null output identifier is the input's
\* or that of the ledger entity stored under the endpoint's normalized name.
C5_ResolveNeverFabricates ==
    op = "resolve" =>
        \A i \in 1..Len(args) : \A s \in 1..2 :
            LET in == Endpoints(args[i])[s]
                out == Endpoints(result[i])[s]
            IN  /\ ( /\ in.id = None
                     /\ (in.name = None \/ ~HoldsName(entities, in.name[1])) )
                    => (out.id = None /\ out.name = in.name)
                /\ out.id # None =>
                      \/ out.id = in.id
                      \/ /\ in.name # None
                         /\ \E k \in 1..Len(entities) :
                               /\ entities[k].key = Normalized(in.name[1])
                               /\ entities[k].value.id = out.id

\* C5 case: " a " was filled from the ledger while the unregistered "c" of the
\* same relation stayed null with its name
C5_Witness ==
    /\ op = "resolve"
    /\ \E i \in 1..Len(args) :
          /\ args[i].subject_entity_id = None
          /\ args[i].subject_name = Some(<<" ", "a", " ">>)
          /\ result[i].subject_entity_id = Some(1)
          /\ args[i].object_name = Some(<<"c">>)
          /\ result[i].object_entity_id = None
          /\ result[i].object_name = Some(<<"c">>)

\* C6: an endpoint that enters resolve_relations with a non-null identifier
\* leaves with the same identifier, whether or not a ledger entity has that
\* identifier and whatever its name matches.
C6_ResolveKeepsGivenId ==
    op = "resolve" =>
        \A i \in 1..Len(args) : \A s \in 1..2 :
            Endpoints(args[i])[s].id # None =>
                Endpoints(result[i])[s].id = Endpoints(args[i])[s].id

\* C6 case: subject id 1 with the name of another ledger entity ("B", held
\* without an identifier) and object id 9 that no ledger entity has
C6_Witness ==
    /\ op = "resolve"
    /\ \E i \in 1..Len(args) :
          /\ args[i].subject_entity_id = Some(1)
          /\ args[i].subject_name = Some(<<"B">>)
          /\ DictGet(entities, <<"b">>) # None
          /\ DictGet(entities, <<"b">>)[1].id = None
          /\ LookupById(entities, Some(1)) # None
          /\ args[i].object_entity_id = Some(9)
          /\ LookupById(entities, Some(9)) = None
          /\ result[i].subject_entity_id = Some(1)
          /\ result[i].object_entity_id = Some(9)

\* C7: for a fixed ledger, resolve_relations applied to its own output
\* returns that output, element by element.
C7_ResolveIdempotent ==
    op = "resolve" =>
        /\ Len(ResolveRelations(entities, result)) = Len(result)
        /\ \A i \in 1..Len(result) :
              ResolveRelations(entities, result)[i] = result[i]

\* C7 case: a first pass over two relations that filled an identifier in
C7_Witness ==
    /\ op = "resolve"
    /\ Len(args) = 2
    /\ \E i \in 1..Len(args) :
          /\ args[i].subject_entity_id = None
          /\ result[i].subject_entity_id # None

\* C8: resolve_relations returns as many relations as it was given, the one
\* at position i equal to the input at position i in every field but the two
\* endpoint identifiers, and leaves the input relation objects as they were.
C8_ResolveChangesOnlyIds ==
    op = "resolve" =>
        /\ Len(result) = Len(args)
        /\ \A i \in 1..Len(args) :
              /\ DOMAIN result[i] = DOMAIN args[i]
              /\ \A f \in DOMAIN args[i] \ {"subject_entity_id", "object_entity_id"} :
                    result[i][f] = args[i][f]
        /\ argsAfter = args

\* C8 case: two different relations, one of them with a description, metadata
\* and an id of its own, and an identifier filled in
C8_Witness ==
    /\ op = "resolve"
    /\ Len(args) = 2
    /\ args[1].predicate # args[2].predicate
    /\ \E i \in 1..2 : args[i].id = Some(7) /\ args[i].metadata # NoMeta
    /\ \E i \in 1..2 : result[i] # args[i]

\* C9: a candidate whose normalized name the ledger already holds, from an
\* earlier call or from earlier in the same call, changes nothing: every
\* record held before the call is held unchanged after it, and a name new to
\* the ledger is held as its first mention in the call, whole.
C9_RegisterKeepsEarlierRecord ==
    op = "register" =>
        /\ Len(pre) <= Len(entities)
        /\ \A k \in 1..Len(pre) : entities[k] = pre[k]
        /\ \A k \in (Len(pre) + 1)..Len(entities) :
              \E i \in FirstMentions(args) :
                  /\ Normalized(args[i].name) = entities[k].key
                  /\ entities[k].value = args[i]

\* C9 case: the second mention " a " (id 2, other description, type, chunk
\* and metadata) met "A" held from an earlier call, in a call that also
\* entered a new name
C9_Witness ==
    /\ op = "register"
    /\ DictGet(pre, <<"a">>) # None
    /\ DictGet(pre, <<"a">>)[1].name = <<"A">>
    /\ \E i \in 1..Len(args) :
          /\ args[i].name = <<" ", "a", " ">>
          /\ args[i].description # DictGet(pre, <<"a">>)[1].description
          /\ args[i].id # DictGet(pre, <<"a">>)[1].id
    /\ DictGet(entities, <<"a">>) = DictGet(pre, <<"a">>)
    /\ Len(entities) > Len(pre)

\* C10: right after register_entities returns, a lookup by the name of any
\* returned entity, with a null identifier, returns that entity.
C10_ReturnedResolvableByName ==
    op = "register" =>
        \A i \in 1..Len(result) :
            Lookup(entities, None, Some(result[i].name)) = Some(result[i])

\* the positions of the entities of ents whose normalized name is that of name
Mentions(ents, name) ==
    {i \in 1..Len(ents) : Normalized(ents[i].name) = Normalized(name)}

\* the last position in a non-empty set of positions
LastOf(positions) == CHOOSE i \in positions : \A j \in positions : j <= i

\* C11: in every reachable ledger state each key of the mapping is the
\* normalized name of the entity stored under it, and no two stored entities
\* have the same normalized name.
C11_OneEntityPerNormalizedName ==
    /\ \A k \in 1..Len(entities) :
          entities[k].key = Normalized(entities[k].value.name)
    /\ \A k, m \in 1..Len(entities) :
          k # m => Normalized(entities[k].value.name)
                       # Normalized(entities[m].value.name)

\* C11 case: update_with_stored wrote " a " over a ledger of three names
C11_Witness ==
    /\ op = "update"
    /\ Len(entities) = 3
    /\ \E i \in 1..Len(args) : args[i].name = <<" ", "a", " ">>
    /\ DictGet(pre, <<"a">>) # None
    /\ DictGet(pre, <<"a">>)[1].name = <<"A">>

\* C12 as stated: once the ledger holds, under a normalized name, an entity
\* with a non-null identifier, every later call leaves the identifier held
\* under that name the same.
C12_IdNeverChanges ==
    op # "init" =>
        \A k \in 1..Len(pre) :
            pre[k].value.id # None =>
                /\ DictGet(entities, pre[k].key) # None
                /\ DictGet(entities, pre[k].key)[1].id = pre[k].value.id

\* C12 as amended: the identifier held under a name is left the same by
\* register_entities, by resolve_relations and by an update_with_stored whose
\* input has no entity of that name; an update_with_stored whose input has
\* one puts the identifier of the last such input entity in its place.
C12_IdChangesOnlyByUpdate ==
    op # "init" =>
        \A k \in 1..Len(pre) :
            pre[k].value.id # None =>
                /\ DictGet(entities, pre[k].key) # None
                /\ DictGet(entities, pre[k].key)[1].id =
                      IF op = "update" /\ Mentions(args, pre[k].value.name) # {}
                      THEN args[LastOf(Mentions(args, pre[k].value.name))].id
                      ELSE pre[k].value.id

\* C12 case: "A" held with identifier 1 met a candidate of its name with
\* identifier 2 in register_entities and kept 1
C12_Witness ==
    /\ op = "register"
    /\ DictGet(pre, <<"a">>) # None
    /\ DictGet(pre, <<"a">>)[1].id = Some(1)
    /\ \E i \in 1..Len(args) :
          Normalized(args[i].name) = <<"a">> /\ args[i].id = Some(2)
    /\ DictGet(entities, <<"a">>)[1].id = Some(1)

\* C13: update_with_stored leaves under each input entity's normalized name
\* the last input entity of that name, and leaves the records under all other
\* keys as they were, adding no other key.
C13_UpdateLastWriteWins ==
    op = "update" =>
        /\ \A i \in 1..Len(args) :
              DictGet(entities, Normalized(args[i].name))
                  = Some(args[LastOf(Mentions(args, args[i].name))])
        /\ \A k \in 1..Len(pre) :
              Mentions(args, pre[k].value.name) = {} =>
                  DictGet(entities, pre[k].key) = Some(pre[k].value)
        /\ \A k \in 1..Len(entities) :
              \/ Has(pre, entities[k].key)
              \/ \E i \in 1..Len(args) : Normalized(args[i].name) = entities[k].key

\* C13 case: ["A" with id 1, " a " with id 2] over a ledger that held "A"
\* without an identifier and one other name, which stayed
C13_Witness ==
    /\ op = "update"
    /\ NamesOf(args) = << <<"A">>, <<" ", "a", " ">> >>
    /\ DictGet(pre, <<"a">>) # None
    /\ DictGet(pre, <<"a">>)[1].id = None
    /\ DictGet(pre, <<"b">>) # None
    /\ DictGet(entities, <<"a">>) = Some(args[2])
    /\ DictGet(entities, <<"b">>) = DictGet(pre, <<"b">>)

-----------------------------------------------------------------------------
(* Properties of execute *)

\* the steps of one execute call, in the order the specification gives them
PrescribedOrder ==
    << "chunk", "save_document_with_chunks", "embed_chunks",
       "save_chunk_embeddings", "extract", "register_entities",
       "save_entities", "update_with_stored", "embed_entities",
       "save_entity_embeddings", "resolve_relations", "save_relations" >>

\* the current execute call has made the call named step, and it returned
Done(step) ==
    \E k \in 1..Len(steps) :
        steps[k] = step /\ (k < Len(steps) \/ pc # "raised")

\* the normalized names of the entities the extractor returned to this call
ExtractedNames ==
    {Normalized(locals.entities[i].name) : i \in 1..Len(locals.entities)}

\* the entity rows this call added whose normalized name is that of name
RowsNamed(name) ==
    {k \in (Len(dbPre.entities) + 1)..Len(db.entities) :
        Normalized(db.entities[k].name) = Normalized(name)}

\* once save_entities has returned, every extracted name has exactly one of
\* the entity rows the call added
C14_OneRowPerName ==
    Done("save_entities") =>
        \A i \in 1..Len(locals.entities) :
            Cardinality(RowsNamed(locals.entities[i].name)) = 1

\* the relations handed to save_relations: an endpoint that the extractor
\* gave no identifier and a name that is one of names carries the identifier
\* of the row stored for that name
RelationsPointAtRows(names) ==
    Done("resolve_relations") =>
        \A i \in 1..Len(locals.relations), e \in 1..2 :
            LET given == Endpoints(locals.relations[i])[e]
                passed == Endpoints(locals.resolved_relations[i])[e]
            IN  (/\ given.id = None
                 /\ given.name # None
                 /\ Normalized(given.name[1]) \in names) =>
                    \E k \in RowsNamed(given.name[1]) :
                        passed.id = Some(db.entities[k].id)

\* C14: in one execute call every extracted name, however often and in
\* whatever case or spacing it is mentioned, gets exactly one entity row, and
\* every relation passed to save_relations with an endpoint that had no
\* identifier and the name of an extracted entity carries that entity's
\* stored identifier at that endpoint.
C14_StoredOnceAndRelationsPoint ==
    C14_OneRowPerName /\ RelationsPointAtRows(ExtractedNames)

\* the same with the empty name set aside: holds
C14_ExceptEmptyName ==
    C14_OneRowPerName /\ RelationsPointAtRows(ExtractedNames \ {<< >>})

\* "A" extracted twice, stored once, and a relation naming " a " pointing at
\* the row
C14_Reached ==
    /\ pc = "returned"
    /\ Len(locals.entities) = 3
    /\ Len(locals.stored_entities) = 2
    /\ \E i \in 1..Len(locals.relations) :
           /\ locals.relations[i].subject_name = Some(<<" ", "a", " ">>)
           /\ locals.relations[i].subject_entity_id = None
           /\ locals.resolved_relations[i].subject_entity_id # None

\* C15: the calls an execute call has made are, in order, the first of the
\* prescribed steps, each once; the call it is about to make is the next of
\* them, and it returns after the last.
C15_StepsInPrescribedOrder ==
    /\ Len(steps) <= Len(PrescribedOrder)
    /\ \A k \in 1..Len(steps) : steps[k] = PrescribedOrder[k]
    /\ pc = "returned" => steps = PrescribedOrder
    /\ pc \notin {"idle", "returned", "raised"} =>
           /\ Len(steps) < Len(PrescribedOrder)
           /\ pc = PrescribedOrder[Len(steps) + 1]

\* an execute call that ran to its end
C15_Witness ==
    /\ pc = "returned"
    /\ Len(steps) = 12
    /\ locals.counts # None

\* C16: the ledger of an execute call holds only entities that call
\* registered: after register_entities its keys are the names the extractor
\* returned to this call, and an endpoint without identifier whose name this
\* call did not extract stays without identifier, whatever earlier calls
\* registered and stored.
C16_LedgerPerCall ==
    /\ Done("register_entities") =>
           {entities[k].key : k \in 1..Len(entities)} = ExtractedNames
    /\ Done("resolve_relations") =>
           \A i \in 1..Len(locals.relations), e \in 1..2 :
               LET given == Endpoints(locals.relations[i])[e]
                   passed == Endpoints(locals.resolved_relations[i])[e]
               IN  (/\ given.id = None
                    /\ given.name # None
                    /\ Normalized(given.name[1]) \notin ExtractedNames) =>
                       passed.id = None

\* a second call extracts no entity and a relation naming "A", which the
\* first call registered and stored: the endpoint stays null
C16_Witness ==
    /\ runs = 2
    /\ pc = "returned"
    /\ locals.entities = << >>
    /\ \E k \in 1..Len(dbPre.entities) : dbPre.entities[k].name = <<"A">>
    /\ \E i \in 1..Len(locals.resolved_relations) :
           /\ locals.resolved_relations[i].subject_name = Some(<<"A">>)
           /\ locals.resolved_relations[i].subject_entity_id = None

\* C17: when a collaborator call of execute raises, execute makes no further
\* call, and the store is as it was when execute was called.
C17_FailsAtomically ==
    pc = "raised" =>
        /\ \A k \in 1..Len(steps) : steps[k] = PrescribedOrder[k]
        /\ db = dbPre

\* the part of C17 that holds: the failure ends the call, nothing is retried
C17_NoRetry ==
    pc = "raised" =>
        \A j, k \in 1..Len(steps) : steps[j] = steps[k] => j = k

-----------------------------------------------------------------------------
(* Properties of the ledger within execute *)

\* the keys of a ledger
Keys(d) == {d[k].key : k \in 1..Len(d)}

\* C24: in execute the update_with_stored step adds no key to the ledger and
\* removes none, and from then on every ledger record has a non-null
\* identifier and no two records have the same one.
C24_UpdateKeepsKeysAndFillsIds ==
    /\ [][pc = "update_with_stored" /\ pc' # pc
              => Keys(entities') = Keys(entities)]_allVars
    /\ [](Done("update_with_stored") =>
              \A j, k \in 1..Len(entities) :
                  /\ entities[k].value.id # None
                  /\ entities[j].value.id = entities[k].value.id => j = k)

\* the update step ran on a ledger of two records registered from three
\* mentions
C24_Witness ==
    /\ Done("update_with_stored")
    /\ Len(locals.entities) = 3
    /\ Len(entities) = 2
    /\ entities[1].value.id # entities[2].value.id

\* the entity rows the current execute call has added
AddedEntityRows ==
    SubSeq(db.entities, Len(dbPre.entities) + 1, Len(db.entities))

\* C25: whatever rows earlier execute calls left, a call whose save_entities
\* has returned has added exactly one entity row per distinct normalized name
\* it extracted, the earlier rows are all still there, and an identifier the
\* call filled into a relation endpoint is that of the row this call added
\* for the endpoint's name, never of an earlier row of that name.
C25_DeduplicationPerCall ==
    /\ SubSeq(db.entities, 1, Len(dbPre.entities)) = dbPre.entities
    /\ Done("save_entities") =>
           /\ Len(AddedEntityRows) = Cardinality(ExtractedNames)
           /\ {Normalized(AddedEntityRows[k].name) :
                   k \in 1..Len(AddedEntityRows)} = ExtractedNames
    /\ Done("resolve_relations") =>
           \A i \in 1..Len(locals.relations), e \in 1..2 :
               LET given == Endpoints(locals.relations[i])[e]
                   passed == Endpoints(locals.resolved_relations[i])[e]
               IN  (given.id = None /\ passed.id # None) =>
                       /\ passed.id[1] \notin Ids(dbPre.entities)
                       /\ \E k \in 1..Len(AddedEntityRows) :
                              /\ AddedEntityRows[k].id = passed.id[1]
                              /\ Normalized(AddedEntityRows[k].name)
                                    = Normalized(given.name[1])

\* the same extraction ingested twice: the second call stores "A" and "B"
\* again and its relation naming " a " points at the second row named "A"
C25_Witness ==
    /\ runs = 2
    /\ pc = "returned"
    /\ Len(locals.entities) = 3
    /\ Len(AddedEntityRows) = 2
    /\ Cardinality({k \in 1..Len(db.entities) :
                       db.entities[k].name = <<"A">>}) = 2
    /\ \E i \in 1..Len(locals.resolved_relations) :
           /\ locals.relations[i].subject_name = Some(<<" ", "a", " ">>)
           /\ locals.resolved_relations[i].subject_entity_id
                 = Some(AddedEntityRows[1].id)

-----------------------------------------------------------------------------
(* Properties of the ledger: resolving before identifiers are known *)

\* C26: resolve_relations leaves the ledger as it was, and an endpoint that
\* comes without identifier and with the name of an entity the ledger holds
\* without identifier (registered, not yet updated) leaves without identifier.
C26_ResolveBeforeUpdateFillsNothing ==
    op = "resolve" =>
        /\ entities = pre
        /\ \A i \in 1..Len(result), e \in 1..2 :
               LET given == Endpoints(args[i])[e]
                   returned == Endpoints(result[i])[e]
               IN  (/\ given.id = None
                    /\ given.name # None
                    /\ \E k \in 1..Len(pre) :
                           /\ pre[k].key = Normalized(given.name[1])
                           /\ pre[k].value.id = None) =>
                       returned.id = None

\* a relation naming "A" resolved against a ledger that holds "A" registered
\* and without identifier
C26_Witness ==
    /\ op = "resolve"
    /\ \E k \in 1..Len(pre) :
           pre[k].key = <<"a">> /\ pre[k].value.id = None
    /\ \E i \in 1..Len(result) :
           /\ args[i].subject_name = Some(<<"A">>)
           /\ args[i].subject_entity_id = None
           /\ result[i].subject_entity_id = None

-----------------------------------------------------------------------------
(* Properties of ChatUseCase.answer *)

\* the line of an answer that lists the entity
Lists(line, entity) ==
    /\ line[2] = entity.entity_type
    /\ line[4] = entity.name
    /\ line[6] = entity.description

-----------------------------------------------------------------------------
(* Properties of SimpleParagraphChunker.chunk *)

\* the chunks occur in the text from position `from` on, one after the other
\* and without overlap
RECURSIVE AppearInOrder(_, _, _)
AppearInOrder(chunks, text, from) ==
    \/ chunks = << >>
    \/ \E p \in from..(Len(text) - Len(Head(chunks)) + 1) :
          /\ SubSeq(text, p, p + Len(Head(chunks)) - 1) = Head(chunks)
          /\ AppearInOrder(Tail(chunks), text, p + Len(Head(chunks)))

\* chunk returns at least one chunk, whatever the text
C22_NonEmpty == call.op = "chunk" => call.result # << >>

\* C22: for every text, the empty one and those of whitespace alone
\* included, chunk returns a non-empty sequence of chunks whose contents
\* occur in the source text, in the order of the sequence.
C22_ChunksAppearInSourceInOrder ==
    call.op = "chunk" =>
        /\ call.result # << >>
        /\ AppearInOrder(call.result, call.args[1], 1)

-----------------------------------------------------------------------------
(* Properties of OpenRouterExtractionService._to_result *)

\* the raw entity records of a payload
RawRecords(payload) ==
    IF /\ payload.kind = "object"
       /\ "entities" \in DOMAIN payload.fields
       /\ payload.fields.entities.kind = "array"
    THEN payload.fields.entities.items
    ELSE << >>

\* the record gives the field as a text that is not empty
HasText(record, field) ==
    /\ field \in DOMAIN record.fields
    /\ record.fields[field].kind = "string"
    /\ record.fields[field].text # << >>

\* the record has no such field, or gives it as null or as the empty text
Lacks(record, field) ==
    \/ field \notin DOMAIN record.fields
    \/ record.fields[field].kind = "null"
    \/ record.fields[field] = [kind |-> "string", text |-> << >>]

\* the category a type text stands for: its own when it names one, letter
\* case set aside, character for "npc", concept otherwise
CategoryOf(text) ==
    LET lowered == [i \in 1..Len(text) |->
                       IF text[i] \in DOMAIN ToLower
                       THEN ToLower[text[i]]
                       ELSE IF text[i] = "N" THEN "n"
                       ELSE IF text[i] = "P" THEN "p"
                       ELSE text[i]]
        named == {t \in DOMAIN EntityTypeValue : EntityTypeValue[t] = lowered}
    IN  IF named # {}
        THEN CHOOSE t \in named : TRUE
        ELSE IF lowered = <<"n", "p", "c">> THEN "character" ELSE "concept"

\* the entity is the record with defaults substituted
Defaulted(record, entity) ==
    /\ record.kind = "object"
    /\ HasText(record, "type") =>
          entity.entity_type = CategoryOf(record.fields.type.text)
    /\ Lacks(record, "type") => entity.entity_type = "concept"
    /\ HasText(record, "name") => entity.name = record.fields.name.text
    /\ Lacks(record, "name") => entity.name = <<"Unnamed">>
    /\ HasText(record, "description") =>
          entity.description = record.fields.description.text
    /\ Lacks(record, "description") =>
          entity.description = <<"No description provided.">>

\* the i-th smallest member of a set of numbers
Nth(S, i) == CHOOSE k \in S : Cardinality({j \in S : j <= k}) = i

\* a record that is a mapping whose attributes, if any, are texts
WellFormed(record) ==
    /\ record.kind = "object"
    /\ "attributes" \in DOMAIN record.fields
       /\ record.fields.attributes.kind = "object"
       => \A k \in DOMAIN record.fields.attributes.fields :
             record.fields.attributes.fields[k].kind \in {"string", "null"}

\* the entities returned are, in order, the records kept with defaults
\* substituted, every well-formed record is kept, and every relation
\* returned starts at a returned entity and names a predicate and a target
RecordsDefaultedOrSkipped(records, returned) ==
    /\ \E keep \in SUBSET (1..Len(records)) :
          /\ Cardinality(keep) = Len(returned.entities)
          /\ \A i \in 1..Len(returned.entities) :
                Defaulted(records[Nth(keep, i)], returned.entities[i])
          /\ \A k \in 1..Len(records) : WellFormed(records[k]) => k \in keep
    /\ \A i \in 1..Len(returned.relations) :
          LET relation == returned.relations[i]
          IN  /\ \E j \in 1..Len(returned.entities) :
                    relation.subject_name = Some(returned.entities[j].name)
              /\ relation.predicate # << >>
              /\ relation.object_name # None
              /\ relation.object_name[1] # << >>

\* whenever _to_result returns, each raw entity record was defaulted or
\* skipped
C21_ReturnedRecordsDefaultedOrSkipped ==
    call.op = "to_result" /\ ~call.failed =>
        RecordsDefaultedOrSkipped(RawRecords(call.args[1]), call.result)

\* a call raised although the payload is a mapping with a list of records
\* and every entity record in it is well-formed: a relation record did it
C21_RelationRecordRaises ==
    /\ call.op = "to_result"
    /\ call.failed
    /\ RawRecords(call.args[1]) # << >>
    /\ \A k \in 1..Len(RawRecords(call.args[1])) :
          WellFormed(RawRecords(call.args[1])[k])

\* C21: for every parsed payload the conversion returns and raises nothing:
\* each raw entity record yields one entity with defaults substituted
\* (unknown type -> concept, "npc" -> character, missing name -> "Unnamed",
\* missing description -> the default text) or is skipped, a malformed
\* relation record is skipped or defaulted, and the other records are
\* returned.
C21_MalformedOutputNeverFails ==
    call.op = "to_result" =>
        /\ ~call.failed
        /\ RecordsDefaultedOrSkipped(RawRecords(call.args[1]), call.result)

-----------------------------------------------------------------------------
(* Properties of the repository *)

\* the table a save method writes to, in the store d
TableOf(method, d) ==
    CASE method = "save_entities" -> d.entities
      [] method = "save_relations" -> d.relations
      [] method = "save_chunk_embeddings" -> d.chunk_embeddings
      [] method = "save_entity_embeddings" -> d.entity_embeddings

\* the call just made was a call of method that returned
Returned(method) == call.op = method /\ ~call.failed

\* C18: save_entities and save_relations, when they return, return a sequence
\* as long as their input whose element i is input element i with only the id
\* replaced, by a non-null identifier; the identifiers of one call differ from
\* one another and from every identifier the table held before the call, and
\* no call removes a row, so identifiers never repeat over a sequence of calls.
C18_SaveAssignsIdsInOrder ==
    /\ \A method \in {"save_entities", "save_relations"} :
           Ids(TableOf(method, dbPre)) \subseteq Ids(TableOf(method, db))
    /\ \A method \in {"save_entities", "save_relations"} :
           Returned(method) =>
               /\ Len(call.result) = Len(call.args)
               /\ \A i \in 1..Len(call.args) :
                      /\ call.result[i].id # None
                      /\ [call.result[i] EXCEPT !.id = call.args[i].id]
                            = call.args[i]
                      /\ call.result[i].id[1] \in Ids(TableOf(method, db))
                      /\ call.result[i].id[1] \notin Ids(TableOf(method, dbPre))
                      /\ \A j \in 1..Len(call.args) :
                             call.result[i].id = call.result[j].id => i = j

\* a save of two items into a table that already holds rows, one of the items
\* carrying an identifier of its own that the save replaces
C18_Witness ==
    /\ Returned("save_entities")
    /\ Len(call.args) = 2
    /\ dbPre.entities # << >>
    /\ \E i \in 1..2 :
           call.args[i].id # None /\ call.result[i].id # call.args[i].id

\* C19: save_document_with_chunks, when it returns, returns a document with a
\* non-null id and one chunk per chunk text, in input order, chunk i (from 0)
\* with chunk_index i, the i-th text, a non-null id and the document's id; the
\* store never holds two chunk rows with the same (document_id, chunk_index).
C19_ChunksIndexedInOrder ==
    /\ \A i, j \in 1..Len(db.chunks) :
           (/\ db.chunks[i].document_id = db.chunks[j].document_id
            /\ db.chunks[i].chunk_index = db.chunks[j].chunk_index) => i = j
    /\ Returned("save_document_with_chunks") =>
           LET document == call.result.document
               chunks == call.result.chunks
               texts == call.args[2]
           IN  /\ document.id # None
               /\ Len(chunks) = Len(texts)
               /\ \A i \in 0..(Len(texts) - 1) :
                      /\ chunks[i + 1].chunk_index = i
                      /\ chunks[i + 1].text = texts[i + 1]
                      /\ chunks[i + 1].id # None
                      /\ chunks[i + 1].document_id = document.id

\* a second document saved with two chunks
C19_Witness ==
    /\ Returned("save_document_with_chunks")
    /\ Len(call.result.chunks) = 2
    /\ dbPre.chunks # << >>
    /\ call.result.chunks[2].chunk_index = 1

\* the vector the pairs give last for id
LastVectorFor(vectors, id) ==
    vectors[CHOOSE i \in 1..Len(vectors) :
                /\ vectors[i][1] = id
                /\ \A j \in (i + 1)..Len(vectors) : vectors[j][1] # id][2]

\* the rows the embedding table holds for id
VectorsHeld(rows, id) == {i \in 1..Len(rows) : rows[i].id = id}

\* the keys a save method's pairs name
Named(vectors) == {vectors[i][1] : i \in 1..Len(vectors)}

\* each embedding table holds at most one vector per id; after a save that
\* returned, the vector held for an id the save names is the last one the save
\* gives for it, and every other id keeps the row it had
C20_HeldVectorsAreLatest ==
    \A method \in {"save_chunk_embeddings", "save_entity_embeddings"} :
        LET before == TableOf(method, dbPre)
            after == TableOf(method, db)
        IN  /\ \A id \in Ids(after) : Cardinality(VectorsHeld(after, id)) = 1
            /\ Returned(method) =>
                   /\ \A id \in Named(call.args) :
                          \E i \in 1..Len(after) :
                              /\ after[i].id = id
                              /\ after[i].vector =
                                    JsonDumps(LastVectorFor(call.args, id))
                   /\ \A i \in 1..Len(before) :
                          before[i].id \notin Named(call.args) =>
                              \E j \in 1..Len(after) : after[j] = before[i]

\* C20: embedding saves are upserts: each embedding table holds at most one
\* vector per id, the vector held for an id is the one its most recent save
\* gave, and a save of vectors for chunks (entities) the store holds does not
\* fail, whether or not an id already has a vector.
C20_EmbeddingSavesUpsert ==
    /\ C20_HeldVectorsAreLatest
    /\ (/\ call.op = "save_chunk_embeddings"
        /\ Named(call.args) \subseteq Ids(dbPre.chunks)) => ~call.failed
    /\ (/\ call.op = "save_entity_embeddings"
        /\ Named(call.args) \subseteq Ids(dbPre.entities)) => ~call.failed

\* a save that names an id holding a vector and replaces that vector
C20_Overwritten ==
    /\ Returned("save_chunk_embeddings")
    /\ \E i \in 1..Len(dbPre.chunk_embeddings) :
           /\ dbPre.chunk_embeddings[i].id \in Named(call.args)
           /\ dbPre.chunk_embeddings[i] \notin Range(db.chunk_embeddings)

=============================================================================
